---------------------------- MODULE Spec2Model ----------------------------
(***************************************************************************)
(* A model of the cfm-prompts repository:                                  *)
(*   cryptogramKeys.py   generate_cryptogram_key and the module-level      *)
(*                       driver loop that prints the keys;                 *)
(*   validate_games.py   the is_valid_* rule functions and validate_json;  *)
(*   validate_prompts.py the check_* functions and validate_json.          *)
(*                                                                         *)
(* A Python str is a sequence of one-character strings.  A list of         *)
(* one-character strs (the generator's `letters`) is a sequence of         *)
(* one-element sequences, so that ''.join is a concatenation.              *)
(*                                                                         *)
(* Three programs, three specifications: SpecGen (FairSpecGen with the     *)
(* fairness of the shuffle), SpecCipher (is_valid_scryptogram_cipher as a  *)
(* function of its argument), SpecGames and SpecPrompts (one validate_json *)
(* run each).  The variables of the programs a specification does not run  *)
(* stay at their initial values.                                           *)
(***************************************************************************)
EXTENDS Integers, Sequences, FiniteSets, TLC

VARIABLES
    \* cryptogramKeys.py
    gpc,        \* position: "driver", "loop", "check", "print", "done"
    i,          \* the driver's loop index (line 23)
    letters,    \* the local list `letters` of the running call (line 5)
    shuffled,   \* the local list `shuffled` (lines 9-10)
    valid,      \* the local flag `valid` (line 13); unbound, here FALSE,
                \* until line 13 binds it
    key,        \* the module-level `key` (line 24)
    stdout,     \* the lines printed so far (line 25)
    returned,   \* the values generate_cryptogram_key has returned, in order
    \* validate_games.is_valid_scryptogram_cipher
    cipher,     \* the argument
    cipherResult, \* the returned pair (ok, message), or NoResult
    \* validate_json of validate_games.py and of validate_prompts.py
    vpc,          \* position: "start", "prompts", "loop", "done"
    end_date_str, \* the argument
    file,         \* prompts.json: "missing", "unparsable" or "parsed"
    data,         \* the parsed document
    end_date,     \* lines 81 / 115
    current_date, \* lines 108 / 152
    result,       \* "none" while running, then "True", "False" or "raise"
    out,          \* the lines printed, each with the date it is about
    examined,     \* the date strs the date loop has been at, in order
    \* validate_games.py only
    games_valid,  \* the local flag `valid` (line 105)
    all_lingo_solutions,
    all_scryptogram_targets,
    \* validate_prompts.py only
    json_dates,
    missing_dates,
    pnext         \* the index of the next element of data['prompts']

genVars == <<gpc, i, letters, shuffled, valid, key, stdout, returned>>
cipherVars == <<cipher, cipherResult>>
runVars == <<vpc, end_date_str, file, data, end_date, current_date, result,
             out, examined>>
gameVars == <<games_valid, all_lingo_solutions, all_scryptogram_targets>>
promptVars == <<json_dates, missing_dates, pnext>>
validatorVars == <<runVars, gameVars, promptVars>>
vars == <<genVars, cipherVars, validatorVars>>

(***************************************************************************)
(* Bounds.  The source fixes the alphabet at 26 letters (range(65, 91),    *)
(* range(26), len(cipher) != 26) and the driver at 20 keys (range(20)); the*)
(* model runs the same code over the first AlphabetSize letters and for    *)
(* NumKeys keys.                                                           *)
(***************************************************************************)
AlphabetSize == 3
NumKeys == 3

OrdA == 65

AllLetters ==
    <<"A", "B", "C", "D", "E", "F", "G", "H", "I", "J", "K", "L", "M",
      "N", "O", "P", "Q", "R", "S", "T", "U", "V", "W", "X", "Y", "Z">>

\* chr(n) for the code points of the upper-case letters
Chr(n) == AllLetters[n - OrdA + 1]

\* [chr(i) for i in range(65, 91)]: a list of one-character strs
Letters == [k \in 1..AlphabetSize |-> <<Chr(OrdA + k - 1)>>]

\* the str "ABCDEFGHIJKLMNOPQRSTUVWXYZ" of is_valid_scryptogram_cipher
alphabet == [k \in 1..AlphabetSize |-> AllLetters[k]]

AllLower ==
    <<"a", "b", "c", "d", "e", "f", "g", "h", "i", "j", "k", "l", "m",
      "n", "o", "p", "q", "r", "s", "t", "u", "v", "w", "x", "y", "z">>

\* the cased characters of the strs the model uses
UpperCase == {AllLetters[k] : k \in DOMAIN AllLetters}
LowerCase == {AllLower[k] : k \in DOMAIN AllLower}
Digits == {"0", "1", "2", "3", "4", "5", "6", "7", "8", "9"}

\* the letters of the model's alphabet
UpperLetters == {AllLetters[k] : k \in 1..AlphabetSize}

\* every list random.shuffle can leave in place of the list l
Shuffles(l) ==
    {[k \in 1..Len(l) |-> l[p[k]]] : p \in Permutations(1..Len(l))}

\* ''.join(l)
RECURSIVE Join(_)
Join(l) == IF l = <<>> THEN <<>> ELSE Head(l) \o Join(Tail(l))

\* lines 13-17: the scan for an index where shuffled[i] == letters[i]
ScanValidSkipsLast(s, l) == \A k \in 1..(AlphabetSize - 1) : s[k] # l[k]
ScanValid(s, l) == \A k \in 1..AlphabetSize : s[k] # l[k]

None == "None"

\* a returned pair (ok, message), and an exception leaving the call
Result(ok, msg) == [ok |-> ok, msg |-> msg, exc |-> None]
Raises(e) == [ok |-> FALSE, msg |-> None, exc |-> e]
NoResult == Result(FALSE, "no result")

InitGen ==
    /\ gpc = "driver"
    /\ i = 0
    /\ letters = <<>>
    /\ shuffled = <<>>
    /\ valid = FALSE
    /\ key = <<>>
    /\ stdout = <<>>
    /\ returned = <<>>

IdleCipher ==
    /\ cipher = <<>>
    /\ cipherResult = NoResult

\* line 23-24 and line 5: the driver enters generate_cryptogram_key
DriverCall ==
    /\ gpc = "driver"
    /\ i < NumKeys
    /\ letters' = Letters
    /\ shuffled' = <<>>
    /\ valid' = FALSE
    /\ gpc' = "loop"
    /\ UNCHANGED <<i, key, stdout, returned>>

\* lines 9-10 with a shuffle that permutes `letters` itself
ShuffleInPlace ==
    /\ gpc = "loop"
    /\ \E p \in Shuffles(letters) :
          /\ shuffled' = p
          /\ letters' = p
    /\ gpc' = "check"
    /\ UNCHANGED <<i, valid, key, stdout, returned>>

\* lines 9-10: shuffled = letters.copy(); random.shuffle(shuffled)
Shuffle ==
    /\ gpc = "loop"
    /\ \E p \in Shuffles(letters) : shuffled' = p
    /\ gpc' = "check"
    /\ UNCHANGED <<i, letters, valid, key, stdout, returned>>

\* lines 13-20 returning whatever was shuffled
CheckAlwaysReturns ==
    /\ gpc = "check"
    /\ valid' = ScanValid(shuffled, letters)
    /\ key' = Join(shuffled)
    /\ returned' = Append(returned, Join(shuffled))
    /\ gpc' = "print"
    /\ UNCHANGED <<i, letters, shuffled, stdout>>

\* lines 13-20: the scan, then return ''.join(shuffled) or the next iteration
Check ==
    /\ gpc = "check"
    /\ valid' = ScanValid(shuffled, letters)
    /\ IF ScanValid(shuffled, letters)
         THEN /\ key' = Join(shuffled)
              /\ returned' = Append(returned, Join(shuffled))
              /\ gpc' = "print"
         ELSE /\ gpc' = "loop"
              /\ UNCHANGED <<key, returned>>
    /\ UNCHANGED <<i, letters, shuffled, stdout>>

\* line 25 printing a key only when it was not printed before
PrintKeyDedup ==
    /\ gpc = "print"
    /\ stdout' = IF \E k \in 1..Len(stdout) : stdout[k] = key
                   THEN stdout ELSE Append(stdout, key)
    /\ i' = i + 1
    /\ gpc' = IF i + 1 < NumKeys THEN "driver" ELSE "done"
    /\ UNCHANGED <<letters, shuffled, valid, key, returned>>

\* line 25, and line 23's next index
PrintKey ==
    /\ gpc = "print"
    /\ stdout' = Append(stdout, key)
    /\ i' = i + 1
    /\ gpc' = IF i + 1 < NumKeys THEN "driver" ELSE "done"
    /\ UNCHANGED <<letters, shuffled, valid, key, returned>>

NextGen ==
    \/ DriverCall /\ UNCHANGED <<cipherVars, validatorVars>>
    \/ Shuffle /\ UNCHANGED <<cipherVars, validatorVars>>
    \/ Check /\ UNCHANGED <<cipherVars, validatorVars>>
    \/ PrintKey /\ UNCHANGED <<cipherVars, validatorVars>>

(***************************************************************************)
(* validate_games.py: is_valid_scryptogram_cipher                          *)
(***************************************************************************)

\* str.isupper(): no cased character is lower-case and at least one
\* character is cased
IsUpper(s) ==
    /\ \E k \in 1..Len(s) : s[k] \in UpperCase
    /\ \A k \in 1..Len(s) : s[k] \notin LowerCase

\* lines 60-76 with the position scan stopping one index early
is_valid_scryptogram_cipher_short_scan(c) ==
    IF Len(c) # AlphabetSize
      THEN Result(FALSE, "not exactly 26 characters")
    ELSE IF ~IsUpper(c)
      THEN Result(FALSE, "not all uppercase")
    ELSE IF \E k \in 1..(AlphabetSize - 1) : c[k] = alphabet[k]
      THEN Result(FALSE, "in its original position")
    ELSE Result(TRUE, None)

\* lines 60-76
is_valid_scryptogram_cipher(c) ==
    IF Len(c) # AlphabetSize
      THEN Result(FALSE, "not exactly 26 characters")
    ELSE IF ~IsUpper(c)
      THEN Result(FALSE, "not all uppercase")
    ELSE IF \E k \in 1..AlphabetSize : c[k] = alphabet[k]
      THEN Result(FALSE, "in its original position")
    ELSE Result(TRUE, None)


(***************************************************************************)
(* Dates.  A datetime is a record [y, m, d].  A date str is a record       *)
(* [y, m, d, form]: "padded" is YYYY-MM-DD, "unpadded" is the same date    *)
(* written without the leading zeros (2025-3-5; the model uses it only for *)
(* dates where that is another str), "slashes" is MM/DD/YYYY.              *)
(***************************************************************************)
DateTime(y, m, d) == [y |-> y, m |-> m, d |-> d]
DateStr(y, m, d, form) == [y |-> y, m |-> m, d |-> d, form |-> form]
NoDate == DateTime(0, 0, 0)
NoDateStr == DateStr(0, 0, 0, "none")

IsLeap(y) == (y % 4 = 0 /\ y % 100 # 0) \/ y % 400 = 0

DaysIn(y, m) ==
    IF m = 2 THEN (IF IsLeap(y) THEN 29 ELSE 28)
    ELSE IF m \in {4, 6, 9, 11} THEN 30
    ELSE 31

Parsed(dt) == [exc |-> None, dt |-> dt]
ParseError(e) == [exc |-> e, dt |-> NoDate]

\* datetime.strptime(s, "%Y-%m-%d"): ValueError unless s is year-month-day
\* (leading zeros optional) and names a day of the calendar
strptime(s) ==
    IF s.form \notin {"padded", "unpadded"} THEN ParseError("ValueError")
    ELSE IF s.m \notin 1..12 THEN ParseError("ValueError")
    ELSE IF s.d \notin 1..DaysIn(s.y, s.m) THEN ParseError("ValueError")
    ELSE Parsed(DateTime(s.y, s.m, s.d))

\* dt.strftime("%Y-%m-%d")
strftime(dt) == DateStr(dt.y, dt.m, dt.d, "padded")

\* dt1 <= dt2
DateLeq(a, b) ==
    \/ a.y < b.y
    \/ a.y = b.y /\ a.m < b.m
    \/ a.y = b.y /\ a.m = b.m /\ a.d <= b.d

\* dt + timedelta(days=1)
NextDay(dt) ==
    IF dt.d < DaysIn(dt.y, dt.m) THEN DateTime(dt.y, dt.m, dt.d + 1)
    ELSE IF dt.m < 12 THEN DateTime(dt.y, dt.m + 1, 1)
    ELSE DateTime(dt.y + 1, 1, 1)

\* dt - timedelta(days=1), for the inputs only
PrevDay(dt) ==
    IF dt.d > 1 THEN DateTime(dt.y, dt.m, dt.d - 1)
    ELSE IF dt.m > 1 THEN DateTime(dt.y, dt.m - 1, DaysIn(dt.y, dt.m - 1))
    ELSE DateTime(dt.y - 1, 12, 31)

RECURSIVE PlusDays(_, _)
PlusDays(dt, n) == IF n = 0 THEN dt ELSE PlusDays(NextDay(dt), n - 1)

\* the datetimes from a to b, ascending
RECURSIVE DateRange(_, _)
DateRange(a, b) ==
    IF DateLeq(a, b) THEN <<a>> \o DateRange(NextDay(a), b) ELSE <<>>

\* validate_games.py line 84 and validate_prompts.py line 118
GamesStart == DateTime(2025, 3, 5)
PromptsStart == DateTime(2025, 3, 3)

\* the days after the start date an input may name
MaxDays == 2

(***************************************************************************)
(* validate_games.py: the rule functions.  Each takes a str and returns    *)
(* Result(ok, message).                                                    *)
(***************************************************************************)
LingoLen == 5
TargetMinLen == 25
MaxWordLen == 12
HintMinLen == 6

Letter == UpperCase \cup LowerCase
\* the characters \w matches
WordChar == Letter \cup Digits \cup {"_"}

\* re.match(r'^[a-zA-Z]+$', s): letters to the end of s, or to a line feed
\* that ends s
MatchesLettersOnly(s) ==
    LET body == IF Len(s) > 0 /\ s[Len(s)] = "\n"
                  THEN SubSeq(s, 1, Len(s) - 1) ELSE s
    IN  /\ Len(body) > 0
        /\ \A k \in 1..Len(body) : body[k] \in Letter

\* sub in s
Contains(s, sub) ==
    \E k \in 1..(Len(s) - Len(sub) + 1) : SubSeq(s, k, k + Len(sub) - 1) = sub

\* some word of re.findall(r'\w+', s) is longer than n: s holds n + 1
\* word characters in a row
HasWordLongerThan(s, n) ==
    \E k \in 1..(Len(s) - n) : \A j \in k..(k + n) : s[j] \in WordChar

\* lines 7-21
is_valid_lingo_solution(solution, all_solutions) ==
    IF Len(solution) # LingoLen
      THEN Result(FALSE, "not exactly 5 characters")
    ELSE IF ~MatchesLettersOnly(solution)
      THEN Result(FALSE, "contains invalid characters")
    ELSE IF solution \in all_solutions
      THEN Result(FALSE, "not unique")
    ELSE Result(TRUE, None)

EscapedQuotes == <<"\\", "\"", "\\", "\"">>

\* lines 24-44
is_valid_scryptogram_target(target, all_targets) ==
    IF Len(target) <= TargetMinLen
      THEN Result(FALSE, "too short")
    ELSE IF HasWordLongerThan(target, MaxWordLen)
      THEN Result(FALSE, "word longer than 12 characters")
    ELSE IF target \in all_targets
      THEN Result(FALSE, "not unique")
    ELSE IF Contains(target, EscapedQuotes)
      THEN Result(FALSE, "consecutive escaped quotes")
    ELSE Result(TRUE, None)

\* lines 47-57
is_valid_scryptogram_hint(hint) ==
    IF Len(hint) <= HintMinLen
      THEN Result(FALSE, "too short")
    ELSE IF ~Contains(hint, <<":">>)
      THEN Result(FALSE, "no colon")
    ELSE Result(TRUE, None)

(***************************************************************************)
(* Sample strs.                                                            *)
(***************************************************************************)
\* "apple"
SolutionApple ==
    <<"a", "p", "p", "l", "e">>

\* "grape"
SolutionGrape ==
    <<"g", "r", "a", "p", "e">>

\* "pear": 4 characters
SolutionPear ==
    <<"p", "e", "a", "r">>

\* "appl1": 5 characters, one a digit
SolutionDigit ==
    <<"a", "p", "p", "l", "1">>

\* "pear" and a line feed: 5 characters
SolutionNewline ==
    <<"p", "e", "a", "r", "\n">>

\* 30 characters, short words
TargetA ==
    <<"t", "h", "e", " ", "q", "u", "i", "c", "k", " ", "b", "r", "o", "w",
      "n", " ", "f", "o", "x", " ", "j", "u", "m", "p", "s", " ", "o", "v",
      "e", "r">>

\* 30 characters, short words
TargetB ==
    <<"a", " ", "s", "t", "i", "t", "c", "h", " ", "i", "n", " ", "t", "i",
      "m", "e", " ", "s", "a", "v", "e", "s", " ", "n", "i", "n", "e", " ",
      "o", "k">>

\* 25 characters
TargetShort ==
    <<"t", "h", "e", " ", "q", "u", "i", "c", "k", " ", "b", "r", "o", "w",
      "n", " ", "f", "o", "x", " ", "j", "u", "m", "p", "s">>

\* 30 characters, the first word has 13
TargetLongWord ==
    <<"u", "n", "p", "r", "e", "d", "i", "c", "t", "a", "b", "l", "e", " ",
      "r", "e", "s", "u", "l", "t", "s", " ", "t", "o", "d", "a", "y", " ",
      "o", "k">>

\* 34 characters, holds \"\" (two escaped quotes in a row)
TargetQuotes ==
    <<"h", "e", " ", "s", "a", "i", "d", " ", "\\", "\"", "\\", "\"", "h",
      "e", "l", "l", "o", "\\", "\"", "\\", "\"", " ", "t", "o", " ", "a",
      "l", "l", " ", "o", "f", " ", "u", "s">>

\* more than 6 characters, with a colon
HintOk ==
    <<"A", "u", "t", "h", "o", "r", ":", " ", "A", "e", "s", "o", "p">>

\* 6 characters
HintShort ==
    <<"B", "y", ":", " ", "m", "e">>

\* no colon
HintNoColon ==
    <<"A", "u", "t", "h", "o", "r", " ", "A", "e", "s", "o", "p">>

(***************************************************************************)
(* The JSON document of validate_games.  A value where the code expects a  *)
(* str is [k, s]: k = "str" with the str s, k = "num" for a JSON number,   *)
(* k = "none" for a key that is absent.  A config is [k, solution, target, *)
(* hint, cipher] with k = "dict", "num" (a number where the object should  *)
(* be) or "none" (no 'config' key).  An element of a game is [k, type,     *)
(* config]: k = "dict" or "num", type = "none" when the 'type' key is      *)
(* absent.  A game is [k, elems]: k = "list", "num" or "none" (no entry    *)
(* for the date).                                                          *)
(***************************************************************************)
JStr(s) == [k |-> "str", s |-> s]
JNum == [k |-> "num", s |-> <<>>]
JAbsent == [k |-> "none", s |-> <<>>]

Config(solution, target, hint, ciph) ==
    [k |-> "dict", solution |-> solution, target |-> target,
     hint |-> hint, cipher |-> ciph]
NoConfig == [Config(JAbsent, JAbsent, JAbsent, JAbsent) EXCEPT !.k = "none"]
NumConfig == [Config(JAbsent, JAbsent, JAbsent, JAbsent) EXCEPT !.k = "num"]

Elem(type, config) == [k |-> "dict", type |-> type, config |-> config]
NumElem == [k |-> "num", type |-> "none", config |-> NoConfig]

Game(elems) == [k |-> "list", elems |-> elems]
NumGame == [k |-> "num", elems |-> <<>>]
NoGame == [k |-> "none", elems |-> <<>>]

\* len(v) of a value that should be a str raises TypeError for a number
OnStr(v, r) == IF v.k = "str" THEN r ELSE Raises("TypeError")

\* the outcome of a part of one date's checks: the exception that ended
\* it, the messages printed, the strs added to the seen-set
Outcome(exc, msgs, add) == [exc |-> exc, msgs |-> msgs, add |-> add]

\* the outcome of a rule function's result r on the str value v (lines
\* 137-142, 155-160, 163-172)
FromResult(r, v, record) ==
    IF r.exc # None THEN Outcome(r.exc, <<>>, {})
    ELSE IF ~r.ok THEN Outcome(None, <<r.msg>>, {})
    ELSE Outcome(None, <<>>, IF record THEN {v.s} ELSE {})

\* b after a, unless a raised
Then(a, b) ==
    IF a.exc # None THEN a
    ELSE Outcome(b.exc, a.msgs \o b.msgs, a.add \cup b.add)

\* lines 129-142: the first element of the game
LingoPart(e, all_lingo) ==
    IF e.k # "dict" THEN Outcome("TypeError", <<>>, {})
    ELSE IF e.type = "none" THEN Outcome("KeyError", <<>>, {})
    ELSE IF e.type # "lingo" THEN Outcome(None, <<"first game is not lingo">>, {})
    ELSE IF e.config.k = "none"
      THEN Outcome(None, <<"missing config or solution">>, {})
    ELSE IF e.config.k = "num" THEN Outcome("TypeError", <<>>, {})
    ELSE IF e.config.solution.k = "none"
      THEN Outcome(None, <<"missing config or solution">>, {})
    ELSE LET v == e.config.solution
         IN  FromResult(OnStr(v, is_valid_lingo_solution(v.s, all_lingo)),
                        v, TRUE)

\* lines 145-172: the second element of the game; the part's `add` is the
\* target to record
ScryptogramPart(e, all_targets) ==
    IF e.k # "dict" THEN Outcome("TypeError", <<>>, {})
    ELSE IF e.type = "none" THEN Outcome("KeyError", <<>>, {})
    ELSE IF e.type # "scryptogram"
      THEN Outcome(None, <<"second game is not scryptogram">>, {})
    ELSE IF e.config.k = "none"
      THEN Outcome(None, <<"missing config, target, hint, or cipher">>, {})
    ELSE IF e.config.k = "num" THEN Outcome("TypeError", <<>>, {})
    ELSE IF \/ e.config.target.k = "none"
            \/ e.config.hint.k = "none"
            \/ e.config.cipher.k = "none"
      THEN Outcome(None, <<"missing config, target, hint, or cipher">>, {})
    ELSE LET c == e.config
             t == FromResult(
                    OnStr(c.target,
                          is_valid_scryptogram_target(c.target.s, all_targets)),
                    c.target, TRUE)
             h == FromResult(OnStr(c.hint, is_valid_scryptogram_hint(c.hint.s)),
                             c.hint, FALSE)
             x == FromResult(
                    OnStr(c.cipher, is_valid_scryptogram_cipher(c.cipher.s)),
                    c.cipher, FALSE)
         IN  Then(Then(t, h), x)

(***************************************************************************)
(* validate_games.py: validate_json                                        *)
(***************************************************************************)

\* the ciphers of the sample games: the alphabet rotated by one, and the
\* alphabet itself
CipherRotated == [k \in 1..AlphabetSize |-> AllLetters[(k % AlphabetSize) + 1]]
CipherIdentity == alphabet

LingoElem(solution) ==
    Elem("lingo", Config(solution, JAbsent, JAbsent, JAbsent))
ScryptogramElem(target, hint, ciph) ==
    Elem("scryptogram", Config(JAbsent, target, hint, ciph))

LingoApple == LingoElem(JStr(SolutionApple))
LingoGrape == LingoElem(JStr(SolutionGrape))
ScryptogramA == ScryptogramElem(JStr(TargetA), JStr(HintOk), JStr(CipherRotated))
ScryptogramB == ScryptogramElem(JStr(TargetB), JStr(HintOk), JStr(CipherRotated))

\* the first elements the sample games have
LingoElems ==
    { LingoApple, LingoGrape,
      LingoElem(JStr(SolutionPear)),
      LingoElem(JStr(SolutionDigit)),
      LingoElem(JStr(SolutionNewline)),
      LingoElem(JNum),
      LingoElem(JAbsent),
      Elem("lingo", NoConfig),
      Elem("lingo", NumConfig),
      Elem("other", Config(JStr(SolutionApple), JAbsent, JAbsent, JAbsent)),
      Elem("none", Config(JStr(SolutionApple), JAbsent, JAbsent, JAbsent)),
      NumElem }

\* the second elements the sample games have
ScryptogramElems ==
    { ScryptogramA, ScryptogramB,
      ScryptogramElem(JStr(TargetShort), JStr(HintOk), JStr(CipherRotated)),
      ScryptogramElem(JStr(TargetLongWord), JStr(HintOk), JStr(CipherRotated)),
      ScryptogramElem(JStr(TargetQuotes), JStr(HintOk), JStr(CipherRotated)),
      ScryptogramElem(JNum, JStr(HintOk), JStr(CipherRotated)),
      ScryptogramElem(JStr(TargetA), JStr(HintShort), JStr(CipherRotated)),
      ScryptogramElem(JStr(TargetA), JStr(HintNoColon), JStr(CipherRotated)),
      ScryptogramElem(JStr(TargetA), JStr(HintOk), JStr(CipherIdentity)),
      ScryptogramElem(JStr(TargetA), JStr(HintOk), JAbsent),
      Elem("scryptogram", NoConfig),
      Elem("other", Config(JAbsent, JStr(TargetA), JStr(HintOk), JStr(CipherRotated))),
      Elem("none", Config(JAbsent, JStr(TargetA), JStr(HintOk), JStr(CipherRotated))) }

\* what the document may hold for one date
SampleGames ==
    { NoGame, NumGame, Game(<<LingoApple>>) }
    \cup { Game(<<l, ScryptogramA>>) : l \in LingoElems }
    \cup { Game(<<LingoApple, s>>) : s \in ScryptogramElems }
    \cup { Game(<<LingoGrape, ScryptogramB>>),
           Game(<<LingoElem(JStr(SolutionPear)),
                  Elem("none", Config(JAbsent, JStr(TargetA), JStr(HintOk),
                                      JStr(CipherRotated)))>>) }

\* the date strs the 'games' object may have keys for
GameDates == {strftime(PlusDays(GamesStart, n)) : n \in 0..(MaxDays - 1)}

\* the parsed document: k = "dict" or "num" (a JSON number), hasGames for
\* the 'games' key, gamesKind "dict" or "num", games[date str] the entry
GamesDoc(k, hasGames, gamesKind, games) ==
    [k |-> k, hasGames |-> hasGames, gamesKind |-> gamesKind, games |-> games]

NoGames == [d \in GameDates |-> NoGame]

GamesDocs ==
    { GamesDoc("num", FALSE, "none", NoGames),
      GamesDoc("dict", FALSE, "none", NoGames),
      GamesDoc("dict", TRUE, "num", NoGames) }
    \cup { GamesDoc("dict", TRUE, "dict", g) : g \in [GameDates -> SampleGames] }

\* the file prompts.json: missing, not JSON, or parsed to a document
GamesFiles ==
    { <<"missing", GamesDoc("none", FALSE, "none", NoGames)>>,
      <<"unparsable", GamesDoc("none", FALSE, "none", NoGames)>> }
    \cup { <<"parsed", d>> : d \in GamesDocs }

\* the end-date arguments: a str in another form, a day no month has, and
\* the days from the day before `start` to MaxDays - 1 days after it
EndDateStrs(start) ==
    { DateStr(2025, 3, 5, "slashes"), DateStr(2025, 2, 30, "padded") }
    \cup { strftime(PlusDays(PrevDay(start), n)) : n \in 0..MaxDays }

IdleGames ==
    /\ games_valid = TRUE
    /\ all_lingo_solutions = {}
    /\ all_scryptogram_targets = {}

IdlePrompts ==
    /\ json_dates = {}
    /\ missing_dates = <<>>
    /\ pnext = 0

IdleValidator ==
    /\ vpc = "idle"
    /\ end_date_str = NoDateStr
    /\ file = "none"
    /\ data = GamesDoc("none", FALSE, "none", NoGames)
    /\ end_date = NoDate
    /\ current_date = NoDate
    /\ result = "none"
    /\ out = <<>>
    /\ examined = <<>>
    /\ IdleGames
    /\ IdlePrompts

GamesInit ==
    /\ InitGen
    /\ IdleCipher
    /\ vpc = "start"
    /\ end_date_str \in EndDateStrs(GamesStart)
    /\ \E f \in GamesFiles : file = f[1] /\ data = f[2]
    /\ end_date = NoDate
    /\ current_date = NoDate
    /\ result = "none"
    /\ out = <<>>
    /\ examined = <<>>
    /\ IdleGames
    /\ IdlePrompts

Line(date, msg) == [date |-> date, msg |-> msg]

\* return v, or the exception e leaving the call
Finish(v) ==
    /\ vpc' = "done"
    /\ result' = v

\* lines 81-105: the end date, the file, the 'games' key
GamesBegin ==
    /\ vpc = "start"
    /\ UNCHANGED <<end_date_str, file, data, examined>>
    /\ UNCHANGED <<games_valid, all_lingo_solutions, all_scryptogram_targets>>
    /\ IF strptime(end_date_str).exc # None
         THEN Finish("raise") /\ UNCHANGED <<end_date, current_date, out>>
       ELSE /\ end_date' = strptime(end_date_str).dt
            /\ IF file = "missing"
                 THEN /\ Finish("False")
                      /\ out' = Append(out, Line(NoDateStr, "file not found"))
                      /\ UNCHANGED current_date
               ELSE IF file = "unparsable"
                 THEN /\ Finish("False")
                      /\ out' = Append(out, Line(NoDateStr, "not a valid JSON file"))
                      /\ UNCHANGED current_date
               ELSE IF data.k # "dict"
                 THEN Finish("raise") /\ UNCHANGED <<current_date, out>>
               ELSE IF ~data.hasGames
                 THEN /\ Finish("False")
                      /\ out' = Append(out, Line(NoDateStr, "no 'games' object"))
                      /\ UNCHANGED current_date
               ELSE /\ vpc' = "loop"
                    /\ current_date' = GamesStart
                    /\ UNCHANGED <<result, out>>

\* one date's error lines
DateLines(date, msgs) == [k \in 1..Len(msgs) |-> Line(date, msgs[k])]

\* lines 109-174: one iteration of the date loop
GamesDate ==
    /\ vpc = "loop"
    /\ DateLeq(current_date, end_date)
    /\ UNCHANGED <<end_date_str, file, data, end_date>>
    /\ examined' = Append(examined, strftime(current_date))
    /\ LET date_str == strftime(current_date)
           game == IF date_str \in DOMAIN data.games
                     THEN data.games[date_str] ELSE NoGame
           skip(msg) ==
               /\ out' = Append(out, Line(date_str, msg))
               /\ games_valid' = FALSE
               /\ current_date' = NextDay(current_date)
               /\ UNCHANGED <<vpc, result, all_lingo_solutions,
                              all_scryptogram_targets>>
           raise ==
               /\ Finish("raise")
               /\ UNCHANGED <<out, games_valid, current_date,
                              all_lingo_solutions, all_scryptogram_targets>>
       IN  IF data.gamesKind # "dict" THEN raise
           ELSE IF game.k = "none" THEN skip("missing game")
           ELSE IF game.k # "list" THEN raise
           ELSE IF Len(game.elems) < 2 THEN skip("fewer than 2 elements")
           ELSE LET l == LingoPart(game.elems[1], all_lingo_solutions)
                    s == IF l.exc # None
                           THEN Outcome(l.exc, <<>>, {})
                           ELSE ScryptogramPart(game.elems[2],
                                                all_scryptogram_targets)
                IN  /\ out' = out \o DateLines(date_str, l.msgs \o s.msgs)
                    /\ games_valid' =
                          (games_valid /\ l.msgs = <<>> /\ s.msgs = <<>>)
                    /\ all_lingo_solutions' = all_lingo_solutions \cup l.add
                    /\ all_scryptogram_targets' =
                          all_scryptogram_targets \cup s.add
                    /\ IF s.exc # None
                         THEN Finish("raise") /\ UNCHANGED current_date
                         ELSE /\ current_date' = NextDay(current_date)
                              /\ UNCHANGED <<vpc, result>>

\* lines 176-181: the summary line and the return
GamesEnd ==
    /\ vpc = "loop"
    /\ ~DateLeq(current_date, end_date)
    /\ out' = Append(out, Line(NoDateStr,
                 IF games_valid THEN "validation successful"
                                ELSE "validation failed"))
    /\ Finish(IF games_valid THEN "True" ELSE "False")
    /\ UNCHANGED <<end_date_str, file, data, end_date, current_date, examined>>
    /\ UNCHANGED <<games_valid, all_lingo_solutions, all_scryptogram_targets>>

NextGames ==
    \/ GamesBegin /\ UNCHANGED <<genVars, cipherVars, promptVars>>
    \/ GamesDate /\ UNCHANGED <<genVars, cipherVars, promptVars>>
    \/ GamesEnd /\ UNCHANGED <<genVars, cipherVars, promptVars>>

SpecGames == GamesInit /\ [][NextGames]_vars

(***************************************************************************)
(* validate_prompts.py: the check functions.  A prompt is [k, Date,        *)
(* Prompt, PromptLink, keys]: k = "dict" or "num" (a number in the array), *)
(* Date is [k, s] with s a date str, Prompt and PromptLink are str values  *)
(* as above, keys is the set of the other keys the prompt has.  A check    *)
(* returns Result(ok, message); the message is the line it prints.         *)
(***************************************************************************)
\* a prompt
PromptText ==
    <<"D", "e", "s", "c", "r", "i", "b", "e", " ", "a", " ", "k", "i", "n",
      "d", " ", "a", "c", "t">>

\* the placeholder check_prompt_format forbids
PromptPlaceholder ==
    <<"P", "r", "o", "m", "p", "t", " ", "f", "o", "r", " ", "2", "0", "2",
      "5", "-", "0", "3", "-", "0", "3">>

\* two double quotes in a row
PromptTwoQuotes ==
    <<"S", "a", "y", " ", "\"", "\"", "h", "i", "\"", "\"", " ", "t", "o",
      " ", "a", "l", "l">>

\* a YouTube link
LinkYoutube ==
    <<"h", "t", "t", "p", "s", ":", "/", "/", "w", "w", "w", ".", "y", "o",
      "u", "t", "u", "b", "e", ".", "c", "o", "m", "/", "w", "a", "t", "c",
      "h", "?", "v", "=", "1">>

\* a short YouTube link
LinkYoutuBe ==
    <<"h", "t", "t", "p", ":", "/", "/", "y", "o", "u", "t", "u", ".", "b",
      "e", "/", "1">>

\* a link to another site
LinkOther ==
    <<"h", "t", "t", "p", "s", ":", "/", "/", "v", "i", "m", "e", "o", ".",
      "c", "o", "m", "/", "1">>

PlaceholderPrefix == <<"P", "r", "o", "m", "p", "t", " ", "f", "o", "r", " ">>
SchemeHttp == <<"h", "t", "t", "p">>
SchemeRest == <<":", "/", "/">>
HostWww == <<"w", "w", "w", ".">>
HostYoutube == <<"y", "o", "u", "t", "u", "b", "e", ".", "c", "o", "m", "/">>
HostYoutuBe == <<"y", "o", "u", "t", "u", ".", "b", "e", "/">>

\* s holds lit at index k
HasAt(s, k, lit) ==
    /\ k + Len(lit) - 1 <= Len(s)
    /\ SubSeq(s, k, k + Len(lit) - 1) = lit

\* re.match(r"^Prompt for \d{4}-\d{2}-\d{2}$", s): the whole of s, or all
\* of s but a line feed that ends it
MatchesPlaceholder(s) ==
    LET body == IF Len(s) > 0 /\ s[Len(s)] = "\n"
                  THEN SubSeq(s, 1, Len(s) - 1) ELSE s
        n == Len(PlaceholderPrefix)
    IN  /\ Len(body) = n + 10
        /\ HasAt(body, 1, PlaceholderPrefix)
        /\ \A k \in {1, 2, 3, 4, 6, 7, 9, 10} : body[n + k] \in Digits
        /\ \A k \in {5, 8} : body[n + k] = "-"

\* re.search of r"https?://(?:www\.)?youtube\.com/" or of
\* r"https?://(?:www\.)?youtu\.be/" in s (lines 79-86)
SearchesYoutube(s) ==
    \E k \in 1..Len(s) :
      \E scheme \in {SchemeHttp, SchemeHttp \o <<"s">>} :
        \E www \in {<<>>, HostWww} :
          \E host \in {HostYoutube, HostYoutuBe} :
            HasAt(s, k, scheme \o SchemeRest \o www \o host)

\* re.search(r'\"+\"+', s): two double quotes in a row
SearchesTwoQuotes(s) == Contains(s, <<"\"", "\"">>)

OtherKeys == {"Lesson", "WeekDay", "WeekNum", "WeekLabel", "Month", "Link"}

Prompt(date, text, link, keys) ==
    [k |-> "dict", Date |-> date, Prompt |-> text, PromptLink |-> link,
     keys |-> keys]
NumPrompt == [Prompt(JAbsent, JAbsent, JAbsent, {}) EXCEPT !.k = "num"]

\* the first of the keys lines 23-57 look for that p lacks, or None
FirstMissingKey(p) ==
    IF "Lesson" \notin p.keys THEN "Lesson"
    ELSE IF "WeekDay" \notin p.keys THEN "WeekDay"
    ELSE IF "WeekNum" \notin p.keys THEN "WeekNum"
    ELSE IF "WeekLabel" \notin p.keys THEN "WeekLabel"
    ELSE IF "Month" \notin p.keys THEN "Month"
    ELSE IF "Link" \notin p.keys THEN "Link"
    ELSE IF p.PromptLink.k = "none" THEN "PromptLink"
    ELSE None

\* lines 6-59; the caller has seen the 'Date' key
check_prompt_format(p) ==
    IF p.Prompt.k = "none" THEN Result(TRUE, None)
    ELSE IF p.Prompt.k # "str" THEN Raises("TypeError")
    ELSE IF MatchesPlaceholder(p.Prompt.s)
      THEN Result(FALSE, "invalid prompt format")
    ELSE IF FirstMissingKey(p) # None
      THEN Result(FALSE, "is missing a " \o FirstMissingKey(p))
    ELSE Result(TRUE, None)

\* lines 61-89
check_youtube_link(p) ==
    IF p.Date.k = "none" THEN Result(TRUE, None)
    ELSE IF p.PromptLink.k = "none"
      THEN Result(FALSE, "is missing YouTube link")
    ELSE IF p.PromptLink.k # "str" THEN Raises("TypeError")
    ELSE IF SearchesYoutube(p.PromptLink.s) THEN Result(TRUE, None)
    ELSE Result(FALSE, "not a YouTube link")

\* lines 91-111
check_escaped_quotes(p) ==
    IF p.Prompt.k = "none" \/ p.Date.k = "none" THEN Result(TRUE, None)
    ELSE IF p.Prompt.k # "str" THEN Raises("TypeError")
    ELSE IF SearchesTwoQuotes(p.Prompt.s)
      THEN Result(FALSE, "consecutive escaped double quotes")
    ELSE Result(TRUE, None)

\* lines 144-146: the three checks on one prompt, their results dropped;
\* what is left is the lines printed and the exception, if one ended them
RunChecks(p) ==
    LET f == FromResult(check_prompt_format(p), p.Prompt, FALSE)
        y == FromResult(check_youtube_link(p), p.PromptLink, FALSE)
        q == FromResult(check_escaped_quotes(p), p.Prompt, FALSE)
    IN  Then(Then(f, y), q)

(***************************************************************************)
(* validate_prompts.py: validate_json                                      *)
(***************************************************************************)

\* the prompts the array may hold
MaxPrompts == 2

JDate(s) == [k |-> "str", s |-> s]
JNumDate == [k |-> "num", s |-> NoDateStr]
JNoDate == [k |-> "none", s |-> NoDateStr]

\* the Date values of the sample prompts: the days from the day before the
\* start date, padded; the start date without its zeros; a str in another
\* form; a number; no 'Date' key
SampleDates ==
    { JDate(strftime(PlusDays(PrevDay(PromptsStart), n))) : n \in 0..MaxDays }
    \cup { JDate(DateStr(PromptsStart.y, PromptsStart.m, PromptsStart.d,
                         "unpadded")),
           JDate(DateStr(2025, 3, 3, "slashes")),
           JNumDate, JNoDate }

StartDate == JDate(strftime(PromptsStart))

\* a prompt that passes every check
GoodPrompt(date) ==
    Prompt(date, JStr(PromptText), JStr(LinkYoutube), OtherKeys)

\* what the sample prompts hold besides the date
SampleContents(date) ==
    { GoodPrompt(date),
      Prompt(date, JStr(PromptText), JStr(LinkYoutuBe), OtherKeys),
      Prompt(date, JStr(PromptPlaceholder), JStr(LinkYoutube), OtherKeys),
      Prompt(date, JStr(PromptTwoQuotes), JStr(LinkYoutube), OtherKeys),
      Prompt(date, JStr(PromptText), JStr(LinkYoutube), OtherKeys \ {"Lesson"}),
      Prompt(date, JStr(PromptText), JStr(LinkYoutube), OtherKeys \ {"Month"}),
      Prompt(date, JStr(PromptText), JAbsent, OtherKeys),
      Prompt(date, JStr(PromptText), JStr(LinkOther), OtherKeys),
      Prompt(date, JStr(PromptText), JNum, OtherKeys),
      Prompt(date, JAbsent, JStr(LinkOther), OtherKeys),
      Prompt(date, JNum, JStr(LinkYoutube), OtherKeys) }

SamplePrompts ==
    { NumPrompt }
    \cup { GoodPrompt(d) : d \in SampleDates }
    \cup SampleContents(StartDate)
    \cup { Prompt(d, JStr(PromptPlaceholder), JStr(LinkOther), OtherKeys) :
             d \in SampleDates \ {JNumDate, JNoDate} }

\* the parsed document: k = "dict" or "num", hasPrompts for the 'prompts'
\* key, promptsKind "list" or "dict", prompts the array
PromptsDoc(k, hasPrompts, promptsKind, prompts) ==
    [k |-> k, hasPrompts |-> hasPrompts, promptsKind |-> promptsKind,
     prompts |-> prompts]

PromptsDocs ==
    { PromptsDoc("num", FALSE, "none", <<>>),
      PromptsDoc("dict", FALSE, "none", <<>>),
      PromptsDoc("dict", TRUE, "dict", <<>>) }
    \cup { PromptsDoc("dict", TRUE, "list", l) :
             l \in UNION {[1..n -> SamplePrompts] : n \in 0..MaxPrompts} }

PromptsFiles ==
    { <<"missing", PromptsDoc("none", FALSE, "none", <<>>)>>,
      <<"unparsable", PromptsDoc("none", FALSE, "none", <<>>)>> }
    \cup { <<"parsed", d>> : d \in PromptsDocs }

PromptsInit ==
    /\ InitGen
    /\ IdleCipher
    /\ vpc = "start"
    /\ end_date_str \in EndDateStrs(PromptsStart)
    /\ \E f \in PromptsFiles : file = f[1] /\ data = f[2]
    /\ end_date = NoDate
    /\ current_date = NoDate
    /\ result = "none"
    /\ out = <<>>
    /\ examined = <<>>
    /\ IdleGames
    /\ IdlePrompts

\* lines 115-137: the end date, the file, the 'prompts' key
PromptsBegin ==
    /\ vpc = "start"
    /\ UNCHANGED <<end_date_str, file, data, examined, current_date>>
    /\ UNCHANGED <<json_dates, missing_dates>>
    /\ IF strptime(end_date_str).exc # None
         THEN Finish("raise") /\ UNCHANGED <<end_date, out, pnext>>
       ELSE /\ end_date' = strptime(end_date_str).dt
            /\ IF file = "missing"
                 THEN /\ Finish("False")
                      /\ out' = Append(out, Line(NoDateStr, "file not found"))
                      /\ UNCHANGED pnext
               ELSE IF file = "unparsable"
                 THEN /\ Finish("False")
                      /\ out' = Append(out, Line(NoDateStr, "not a valid JSON file"))
                      /\ UNCHANGED pnext
               ELSE IF data.k # "dict"
                 THEN Finish("raise") /\ UNCHANGED <<out, pnext>>
               ELSE IF ~data.hasPrompts \/ data.promptsKind # "list"
                 THEN /\ Finish("False")
                      /\ out' = Append(out, Line(NoDateStr, "no 'prompts' array"))
                      /\ UNCHANGED pnext
               ELSE /\ vpc' = "prompts"
                    /\ pnext' = 1
                    /\ UNCHANGED <<result, out>>

\* lines 138-149 and line 152: one element of data['prompts']; after the
\* last one, current_date = start_date
PromptsItem ==
    /\ vpc = "prompts"
    /\ UNCHANGED <<end_date_str, file, data, end_date, examined, missing_dates>>
    /\ IF pnext > Len(data.prompts)
         THEN /\ vpc' = "loop"
              /\ current_date' = PromptsStart
              /\ UNCHANGED <<result, out, json_dates, pnext>>
       ELSE LET p == data.prompts[pnext]
                go == /\ pnext' = pnext + 1
                      /\ UNCHANGED <<vpc, result, current_date>>
                raise == Finish("raise") /\ UNCHANGED <<pnext, current_date>>
            IN  IF p.k # "dict"
                  THEN raise /\ UNCHANGED <<out, json_dates>>
                ELSE IF p.Date.k = "none"
                  THEN go /\ UNCHANGED <<out, json_dates>>
                ELSE IF p.Date.k # "str"
                  THEN raise /\ UNCHANGED <<out, json_dates>>
                ELSE IF strptime(p.Date.s).exc # None
                  THEN go /\ UNCHANGED <<out, json_dates>>
                ELSE LET prompt_date == strptime(p.Date.s).dt
                         inRange == /\ DateLeq(prompt_date, end_date)
                                    /\ DateLeq(PromptsStart, prompt_date)
                         c == IF inRange THEN RunChecks(p)
                                         ELSE Outcome(None, <<>>, {})
                     IN  /\ json_dates' = json_dates \cup {strftime(prompt_date)}
                         /\ out' = out \o DateLines(p.Date.s, c.msgs)
                         /\ IF c.exc # None THEN raise ELSE go

\* lines 153-157: one iteration of the date loop
PromptsDate ==
    /\ vpc = "loop"
    /\ DateLeq(current_date, end_date)
    /\ examined' = Append(examined, strftime(current_date))
    /\ missing_dates' = IF strftime(current_date) \notin json_dates
                          THEN Append(missing_dates, strftime(current_date))
                          ELSE missing_dates
    /\ current_date' = NextDay(current_date)
    /\ UNCHANGED <<vpc, end_date_str, file, data, end_date, result, out,
                   json_dates, pnext>>

\* lines 159-166: the report and the return
PromptsEnd ==
    /\ vpc = "loop"
    /\ ~DateLeq(current_date, end_date)
    /\ IF missing_dates # <<>>
         THEN /\ out' = out \o <<Line(NoDateStr, "missing prompts")>>
                           \o [k \in 1..Len(missing_dates) |->
                                 Line(missing_dates[k], "missing")]
              /\ Finish("False")
         ELSE /\ out' = Append(out, Line(NoDateStr, "all required dates are present"))
              /\ Finish("True")
    /\ UNCHANGED <<end_date_str, file, data, end_date, current_date, examined,
                   json_dates, missing_dates, pnext>>

NextPrompts ==
    \/ PromptsBegin /\ UNCHANGED <<genVars, cipherVars, gameVars>>
    \/ PromptsItem /\ UNCHANGED <<genVars, cipherVars, gameVars>>
    \/ PromptsDate /\ UNCHANGED <<genVars, cipherVars, gameVars>>
    \/ PromptsEnd /\ UNCHANGED <<genVars, cipherVars, gameVars>>

SpecPrompts == PromptsInit /\ [][NextPrompts]_vars

(***************************************************************************)
(* The specifications of the generator and of the cipher check.            *)
(***************************************************************************)
GenInit == InitGen /\ IdleCipher /\ IdleValidator

SpecGen == GenInit /\ [][NextGen]_vars

\* the shuffle that draws a permutation without a fixed point
ShuffleDerangement ==
    /\ Shuffle
    /\ ScanValid(shuffled', letters)
    /\ UNCHANGED <<cipherVars, validatorVars>>

FairSpecGen ==
    /\ GenInit /\ [][NextGen]_vars
    /\ WF_vars(NextGen)
    /\ SF_vars(ShuffleDerangement)

\* the strs of at most n characters over the set S
StrsUpTo(S, n) == UNION {[1..m -> S] : m \in 0..n}

\* the ciphers the function is applied to: every str of at most
\* AlphabetSize + 1 characters over the alphabet, a lower-case letter and a
\* digit
CipherChars == UpperLetters \cup {"a", "1"}
CipherInputs == StrsUpTo(CipherChars, AlphabetSize + 1)

CipherInit ==
    /\ InitGen
    /\ IdleValidator
    /\ cipher \in CipherInputs
    /\ cipherResult = NoResult

\* one call of is_valid_scryptogram_cipher(cipher)
ValidateCipher ==
    /\ cipherResult = NoResult
    /\ cipherResult' = is_valid_scryptogram_cipher(cipher)
    /\ UNCHANGED <<cipher, genVars, validatorVars>>

NextCipher == ValidateCipher

SpecCipher == CipherInit /\ [][NextCipher]_vars

(***************************************************************************)
(* The claims about the generator, its driver and the cipher check.        *)
(***************************************************************************)

\* a str that is a permutation of the alphabet without a fixed point,
\* stated on the characters alone
IsDerangementStr(s) ==
    /\ Len(s) = AlphabetSize
    /\ \A k \in 1..Len(s) : s[k] \in UpperLetters
    /\ \A j, k \in 1..Len(s) : j # k => s[j] # s[k]
    /\ \A k \in 1..Len(s) : s[k] # AllLetters[k]

\* the lists of one-character strs that rearrange A.. without a fixed point
DerangementLists ==
    {l \in [1..AlphabetSize -> {<<c>> : c \in UpperLetters}] :
        /\ \A j, k \in 1..AlphabetSize : j # k => l[j] # l[k]
        /\ \A k \in 1..AlphabetSize : l[k] # <<AllLetters[k]>>}

\* C1: every str generate_cryptogram_key returns, whatever the shuffles
\* produce, has the alphabet's length (26 in the source), consists of
\* upper-case letters only, repeats no letter and differs from the alphabet
\* at every index.
C1_ReturnedKeyIsDerangement ==
    \A n \in 1..Len(returned) : IsDerangementStr(returned[n])

C1_Witness ==
    /\ gpc = "print"
    /\ Len(returned) = 2
    /\ key = returned[2]
    /\ valid = TRUE

\* C2: generate_cryptogram_key has no error outcome: the step after a scan
\* either returns the candidate, which then has no fixed point, or goes back
\* to a fresh shuffle, and with a shuffle that eventually draws a
\* permutation without a fixed point every call returns.
C2_AlwaysReturns ==
    /\ [][gpc = "check" =>
            IF \E k \in 1..AlphabetSize : shuffled[k] = <<AllLetters[k]>>
              THEN gpc' = "loop" /\ returned' = returned
              ELSE /\ gpc' = "print"
                   /\ returned' = Append(returned, key')
                   /\ IsDerangementStr(key')]_vars
    /\ [][gpc' = "print" /\ gpc # "print" => gpc = "check"]_vars
    /\ (gpc = "loop") ~> (gpc = "print")

C2_Witness ==
    /\ gpc = "loop"
    /\ valid = FALSE
    /\ Len(shuffled) = AlphabetSize
    /\ \E k \in 1..AlphabetSize : shuffled[k] = <<AllLetters[k]>>

\* C3: the driver calls the generator NumKeys times (20 in the source) and
\* prints one line per call, in call order, each line the returned str;
\* nothing is dropped or deduplicated.
C3_DriverPrintsEveryKey ==
    /\ stdout = IF gpc = "print"
                  THEN SubSeq(returned, 1, Len(returned) - 1)
                  ELSE returned
    /\ Len(stdout) = i
    /\ gpc = "print" => key = returned[Len(returned)]
    /\ gpc = "done" <=> Len(stdout) = NumKeys
    /\ gpc = "done" => Len(returned) = NumKeys
    /\ \A n \in 1..Len(stdout) : IsDerangementStr(stdout[n])

C3_Witness ==
    /\ gpc = "done"
    /\ Len(stdout) = NumKeys
    /\ stdout[1] = stdout[2]

\* C4: in every call and in every retry of a call the list the candidate
\* is compared with is A, B, C, ... unchanged by the shuffles, and whatever
\* the earlier calls returned, the shuffle can draw every permutation
\* without a fixed point and the scan then returns it.
C4_CallsShareNoState ==
    /\ gpc \in {"loop", "check"} =>
          letters = [k \in 1..AlphabetSize |-> <<AllLetters[k]>>]
    /\ gpc = "loop" =>
          \A d \in DerangementLists : ENABLED (Shuffle /\ shuffled' = d)
    /\ (gpc = "check" /\ shuffled \in DerangementLists) =>
          ENABLED (Check /\ gpc' = "print" /\ key' = Join(shuffled))

C4_Witness ==
    /\ gpc = "loop"
    /\ valid = FALSE
    /\ Len(returned) = 2
    /\ returned[1] # returned[2]

\* the keys generate_cryptogram_key can return: the join of every shuffle
\* of `letters` that passes its scan
GeneratorKeys == {Join(p) : p \in {q \in Shuffles(Letters) : ScanValid(q, Letters)}}

\* C9 (as claimed): a cipher is accepted exactly when it has the alphabet's
\* length, every character is an upper-case letter and no character stands
\* at its own index of the alphabet.
C9_AcceptsExactlyUpperDerangedStrs ==
    cipherResult # NoResult =>
        (cipherResult.ok <=>
            /\ Len(cipher) = AlphabetSize
            /\ \A k \in 1..Len(cipher) : cipher[k] \in UpperCase
            /\ \A k \in 1..Len(cipher) : cipher[k] # AllLetters[k])

\* C10 (as claimed): the validator accepts exactly the keys the generator
\* can return.
C10_ValidatorAcceptsExactlyGeneratorKeys ==
    cipherResult # NoResult =>
        (cipherResult.ok <=> cipher \in GeneratorKeys)

\* C10 (amended): every key the generator can return is accepted, without
\* a message, and every accepted cipher has the alphabet's length, passes
\* isupper() and has no character at its own index of the alphabet; it
\* need not be a permutation of the alphabet.
C10_GeneratorKeysAccepted ==
    cipherResult # NoResult =>
        /\ cipher \in GeneratorKeys => cipherResult = Result(TRUE, None)
        /\ cipherResult.ok =>
              /\ cipherResult.msg = None
              /\ Len(cipher) = AlphabetSize
              /\ \E k \in 1..Len(cipher) : cipher[k] \in UpperCase
              /\ \A k \in 1..Len(cipher) : cipher[k] \notin LowerCase
              /\ \A k \in 1..Len(cipher) : cipher[k] # AllLetters[k]

C10_Witness ==
    /\ cipherResult = Result(TRUE, None)
    /\ cipher \in GeneratorKeys

(***************************************************************************)
(* The claims about the validators.                                        *)
(***************************************************************************)

\* the run has returned a value
Returned == vpc = "done" /\ result \in {"True", "False"}

\* the run got as far as the date loop of validate_games
ReachedGamesLoop ==
    /\ strptime(end_date_str).exc = None
    /\ file = "parsed"
    /\ data.k = "dict"
    /\ data.hasGames
    /\ data.gamesKind = "dict"

\* a printed line that reports an error
IsErrorLine(l) ==
    l.msg \notin {"validation successful", "all required dates are present"}

\* the date strs from `start` to the end date
RangeStrs(start) ==
    LET r == DateRange(start, strptime(end_date_str).dt)
    IN  [k \in 1..Len(r) |-> strftime(r[k])]

InRange(start, s) ==
    /\ strptime(s).exc = None
    /\ \E k \in 1..Len(RangeStrs(start)) :
          RangeStrs(start)[k] = strftime(strptime(s).dt)

\* C5 (as claimed, on validate_prompts): when validate_json has printed an
\* error line for a date of the checked range, the value it returns is
\* False; it returns True only when it printed no error line.
C5_ErrorsMakeResultFalse ==
    Returned =>
        /\ (\E k \in 1..Len(out) :
               IsErrorLine(out[k]) /\ InRange(PromptsStart, out[k].date))
             => result = "False"
        /\ result = "True" => \A k \in 1..Len(out) : ~IsErrorLine(out[k])

\* validate_games does accumulate: the same statement holds of it
GamesErrorsMakeResultFalse ==
    Returned =>
        (result = "True" <=> \A k \in 1..Len(out) : ~IsErrorLine(out[k]))

\* C6 (as claimed, on validate_games): validate_json never ends by
\* raising, whatever the end-date str and the file, and a missing or
\* unparsable file yields False.
C6_NeverRaises ==
    /\ result # "raise"
    /\ (vpc = "done" /\ file \in {"missing", "unparsable"}) => result = "False"

\* the same statement of validate_prompts
PromptsNeverRaises ==
    /\ result # "raise"
    /\ (vpc = "done" /\ file \in {"missing", "unparsable"}) => result = "False"

\* C7 (as claimed, on validate_games): a run that reaches the date loop
\* ends having been at every date from the start date to the end date, in
\* ascending order and at no other, and returns False when one of these
\* dates has no entry in the document.
C7_EveryDateExamined ==
    (vpc = "done" /\ ReachedGamesLoop) =>
        /\ examined = RangeStrs(GamesStart)
        /\ (\E k \in 1..Len(RangeStrs(GamesStart)) :
               data.games[RangeStrs(GamesStart)[k]].k = "none")
             => result = "False"

\* what C7 says holds of the runs that return
ReturningRunsExamineEveryDate ==
    (Returned /\ ReachedGamesLoop) =>
        /\ examined = RangeStrs(GamesStart)
        /\ (\E k \in 1..Len(RangeStrs(GamesStart)) :
               data.games[RangeStrs(GamesStart)[k]].k = "none")
             => result = "False"

\* the date loop of either validator goes through the dates one day at a
\* time
DateLoopAscends ==
    [][vpc = "loop" /\ vpc' = "loop" =>
          /\ current_date' = NextDay(current_date)
          /\ examined' = Append(examined, strftime(current_date))]_vars

\* game[0]['config']['solution'] and game[1]['config']['target'] of a
\* date's entry, where the entry has them
SolutionsOf(g) ==
    IF /\ g.k = "list" /\ Len(g.elems) >= 1 /\ g.elems[1].k = "dict"
       /\ g.elems[1].config.k = "dict" /\ g.elems[1].config.solution.k = "str"
      THEN {g.elems[1].config.solution.s} ELSE {}

TargetsOf(g) ==
    IF /\ g.k = "list" /\ Len(g.elems) >= 2 /\ g.elems[2].k = "dict"
       /\ g.elems[2].config.k = "dict" /\ g.elems[2].config.target.k = "str"
      THEN {g.elems[2].config.target.s} ELSE {}

\* two dates of the checked range carry the same solution or target
HasDuplicate ==
    \E j, k \in 1..Len(RangeStrs(GamesStart)) :
        /\ j # k
        /\ LET a == data.games[RangeStrs(GamesStart)[j]]
               b == data.games[RangeStrs(GamesStart)[k]]
           IN  \/ SolutionsOf(a) \cap SolutionsOf(b) # {}
               \/ TargetsOf(a) \cap TargetsOf(b) # {}

\* every str of the seen-sets passed its checks
SeenPassedChecks ==
    /\ \A x \in all_lingo_solutions :
          Len(x) = LingoLen /\ MatchesLettersOnly(x)
    /\ \A t \in all_scryptogram_targets :
          /\ Len(t) > TargetMinLen
          /\ ~HasWordLongerThan(t, MaxWordLen)
          /\ ~Contains(t, EscapedQuotes)

\* C8 (as claimed): when two different dates of the checked range carry
\* the same lingo solution or the same scryptogram target, validate_json
\* returns False; a value is in a seen-set only when it passed its checks.
C8_DuplicatesRejected ==
    /\ (vpc = "done" /\ ReachedGamesLoop /\ HasDuplicate) => result = "False"
    /\ SeenPassedChecks

\* what C8 says holds of the runs that return
ReturningRunsRejectDuplicates ==
    /\ (Returned /\ ReachedGamesLoop /\ HasDuplicate) => result = "False"
    /\ SeenPassedChecks

\* the seen-sets only grow
SeenSetsGrow ==
    [][/\ all_lingo_solutions \subseteq all_lingo_solutions'
       /\ all_scryptogram_targets \subseteq all_scryptogram_targets']_vars

=============================================================================
